---- MODULE Spec2Model ----
(***************************************************************************)
(* The AST model, the constant folding / propagation pass and the          *)
(* Graphviz exporter of the C front end (src/parser/ast_nodes.py,          *)
(* constant_folder.py, dot_visitor.py, driven as in main/__main__.py).     *)
(*                                                                         *)
(* An AST node is a record with a `kind` (the Python class name), an `id`  *)
(* (the identity of the Python object: two slots holding the same object   *)
(* hold records with the same id) and the attributes of its class.         *)
(***************************************************************************)
EXTENDS Integers, Sequences, FiniteSets, TLC

VARIABLES
    tree,       \* the statements of the AST as ASTBuilder built it (what main prints "before folding")
    ast,        \* the statements of the AST object graph, rewritten in place by the folder
    pc,         \* position of main(): "lower", "constructed", "folded", "raised"
    enabled,    \* ConstantFolder.enabled
    known,      \* ConstantFolder._known: name -> literal node
    nalloc,     \* number of node objects the folder has constructed
    raised,     \* the exception that ended the pass, or "none"
    lines,      \* DotVisitor._lines
    counter,    \* DotVisitor._counter
    docs,       \* the documents DotVisitor.visit has returned, in order
    visits      \* number of visit calls made on the current DotVisitor instance

vars == <<tree, ast, pc, enabled, known, nalloc, raised, lines, counter, docs, visits>>

----------------------------------------------------------------------------
(* Bounds of the model *)

MaxStmts == 3
MaxDotStmts == 2
MaxDocs == 2
MaxAbs == 8
MaxAbortStmts == 2

----------------------------------------------------------------------------
(* ast_nodes.py: the node classes.  NoneNode is Python's None in the       *)
(* optional VarDeclNode.value slot.                                        *)

NoneNode == [kind |-> "None"]

IntLiteralNode(id, value) == [kind |-> "IntLiteralNode", id |-> id, value |-> value]

FloatLiteralNode(id, value) == [kind |-> "FloatLiteralNode", id |-> id, value |-> value]

CharLiteralNode(id, value) == [kind |-> "CharLiteralNode", id |-> id, value |-> value]

IdentifierNode(id, name) == [kind |-> "IdentifierNode", id |-> id, name |-> name]

UnaryOpNode(id, op, operand) ==
    [kind |-> "UnaryOpNode", id |-> id, op |-> op, operand |-> operand]

BinaryOpNode(id, op, left, right) ==
    [kind |-> "BinaryOpNode", id |-> id, op |-> op, left |-> left, right |-> right]

DereferenceNode(id, operand) == [kind |-> "DereferenceNode", id |-> id, operand |-> operand]

AddressOfNode(id, operand) == [kind |-> "AddressOfNode", id |-> id, operand |-> operand]

IncrementNode(id, operand, prefix) ==
    [kind |-> "IncrementNode", id |-> id, operand |-> operand, prefix |-> prefix]

DecrementNode(id, operand, prefix) ==
    [kind |-> "DecrementNode", id |-> id, operand |-> operand, prefix |-> prefix]

CastNode(id, type_name, pointer_depth, operand) ==
    [kind |-> "CastNode", id |-> id, type_name |-> type_name,
     pointer_depth |-> pointer_depth, operand |-> operand]

VarDeclNode(id, is_const, type_name, pointer_depth, name, value) ==
    [kind |-> "VarDeclNode", id |-> id, is_const |-> is_const, type_name |-> type_name,
     pointer_depth |-> pointer_depth, name |-> name, value |-> value]

AssignNode(id, target, value) ==
    [kind |-> "AssignNode", id |-> id, target |-> target, value |-> value]

MainFunctionNode(id, statements) ==
    [kind |-> "MainFunctionNode", id |-> id, statements |-> statements]

ProgramNode(id, main_function) ==
    [kind |-> "ProgramNode", id |-> id, main_function |-> main_function]

LiteralKinds == {"IntLiteralNode", "FloatLiteralNode", "CharLiteralNode"}

OperandKinds ==
    {"UnaryOpNode", "DereferenceNode", "AddressOfNode", "IncrementNode", "DecrementNode",
     "CastNode"}

IsLiteral(node) == node.kind \in LiteralKinds

Statements(program) == program.main_function.statements

----------------------------------------------------------------------------
(* Python integer arithmetic used by the evaluation helpers *)

Abs(n) == IF n < 0 THEN -n ELSE n

\* left // right would round toward negative infinity
PyFloorDiv(left, right) ==
    IF right > 0 THEN left \div right ELSE (-left) \div (-right)

\* int(left / right): the true quotient, then truncated toward zero
PyTrueDivInt(left, right) ==
    LET q == Abs(left) \div Abs(right)
    IN  IF (left < 0) = (right < 0) THEN q ELSE -q

\* left % right: the remainder takes the sign of the divisor
PyMod(left, right) ==
    IF right > 0 THEN left % right ELSE -((-left) % (-right))

RECURSIVE Pow2(_)
Pow2(n) == IF n = 0 THEN 1 ELSE 2 * Pow2(n - 1)

\* bitwise operators on Python's unbounded two's-complement integers
RECURSIVE BitAnd(_, _)
BitAnd(a, b) ==
    IF a = 0 \/ b = 0 THEN 0
    ELSE IF a = -1 THEN b
    ELSE IF b = -1 THEN a
    ELSE 2 * BitAnd(a \div 2, b \div 2) + (a % 2) * (b % 2)

BitOr(a, b) == -1 - BitAnd(-1 - a, -1 - b)

BitXor(a, b) == BitOr(a, b) - BitAnd(a, b)

BoolInt(b) == IF b THEN 1 ELSE 0

----------------------------------------------------------------------------
(* constant_folder.py: evaluation helpers.  A result is [exc, val]: the    *)
(* exception raised ("none" when the helper returns) and the value.        *)

Ret(v) == [exc |-> "none", val |-> v]

Raise(e) == [exc |-> e, val |-> 0]

UnaryOps == {"+", "-", "!", "~"}

BinaryOps ==
    {"+", "-", "*", "/", "%", "==", "!=", "<", ">", "<=", ">=", "&&", "||",
     "&", "|", "^", "<<", ">>"}

_eval_unary(op, val) ==
    CASE op = "+" -> Ret(val)
      [] op = "-" -> Ret(-val)
      [] op = "!" -> Ret(BoolInt(val = 0))
      [] op = "~" -> Ret(-val - 1)
      [] OTHER    -> Raise("ValueError")

_eval_binary(op, left, right) ==
    CASE op = "+"  -> Ret(left + right)
      [] op = "-"  -> Ret(left - right)
      [] op = "*"  -> Ret(left * right)
      [] op = "/"  -> IF right = 0 THEN Raise("ZeroDivisionError")
                      ELSE Ret(PyTrueDivInt(left, right))
      [] op = "%"  -> IF right = 0 THEN Raise("ZeroDivisionError")
                      ELSE Ret(PyMod(left, right))
      [] op = "==" -> Ret(BoolInt(left = right))
      [] op = "!=" -> Ret(BoolInt(left # right))
      [] op = "<"  -> Ret(BoolInt(left < right))
      [] op = ">"  -> Ret(BoolInt(left > right))
      [] op = "<=" -> Ret(BoolInt(left <= right))
      [] op = ">=" -> Ret(BoolInt(left >= right))
      [] op = "&&" -> Ret(BoolInt(left # 0 /\ right # 0))
      [] op = "||" -> Ret(BoolInt(left # 0 \/ right # 0))
      [] op = "&"  -> Ret(BitAnd(left, right))
      [] op = "|"  -> Ret(BitOr(left, right))
      [] op = "^"  -> Ret(BitXor(left, right))
      [] op = "<<" -> IF right < 0 THEN Raise("ValueError")
                      ELSE Ret(left * Pow2(right))
      [] op = ">>" -> IF right < 0 THEN Raise("ValueError")
                      ELSE Ret(left \div Pow2(right))
      [] OTHER     -> Raise("ValueError")

----------------------------------------------------------------------------
(* constant_folder.py: the visitor.  The folder's state is threaded        *)
(* through the recursion as st = [known, nalloc, exc]; a visit returns     *)
(* [node, st].  Once st.exc is set the exception is propagating: nothing   *)
(* further is executed and the nodes stay as they are at that moment.      *)

FolderState(k, n, e) == [known |-> k, nalloc |-> n, exc |-> e]

Returns(node, st) == [node |-> node, st |-> st]

\* self._known.pop(name, None)
Pop(k, name) == [n \in DOMAIN k \ {name} |-> k[n]]

\* self._known[name] = node
Bind(k, name, node) == [n \in DOMAIN k \cup {name} |-> IF n = name THEN node ELSE k[n]]

\* a node object the folder constructs: IntLiteralNode(result)
NewIntLiteral(st, value) ==
    Returns(IntLiteralNode(<<0, st.nalloc + 1>>, value),
            [st EXCEPT !.nalloc = st.nalloc + 1])

Raising(node, st, e) == Returns(node, [st EXCEPT !.exc = e])

RECURSIVE visit(_, _)

generic_visit(node, st) == Returns(node, st)

visit_IdentifierNode(node, st) ==
    IF node.name \in DOMAIN st.known
    THEN Returns(st.known[node.name], st)
    ELSE Returns(node, st)

visit_VarDeclNode(node, st) ==
    IF node.value # NoneNode
    THEN LET v == visit(node.value, st)
             n == [node EXCEPT !.value = v.node]
         IN  IF v.st.exc # "none" THEN Returns(n, v.st)
             ELSE IF IsLiteral(v.node)
             THEN Returns(n, [v.st EXCEPT !.known = Bind(v.st.known, node.name, v.node)])
             ELSE Returns(n, [v.st EXCEPT !.known = Pop(v.st.known, node.name)])
    ELSE Returns(node, [st EXCEPT !.known = Pop(st.known, node.name)])

\* an assignment that never updates the known values
visit_AssignNode_stale(node, st) ==
    LET v == visit(node.value, st)
    IN  Returns([node EXCEPT !.value = v.node], v.st)

\* an assignment that takes *p = v for an assignment to p
visit_AssignNode_through(node, st) ==
    LET v == visit(node.value, st)
        n == [node EXCEPT !.value = v.node]
        name == IF node.target.kind = "IdentifierNode" THEN node.target.name
                ELSE node.target.operand.name
    IN  IF v.st.exc # "none" THEN Returns(n, v.st)
        ELSE IF IsLiteral(v.node)
        THEN Returns(n, [v.st EXCEPT !.known = Bind(v.st.known, name, v.node)])
        ELSE Returns(n, [v.st EXCEPT !.known = Pop(v.st.known, name)])

visit_AssignNode(node, st) ==
    LET v == visit(node.value, st)
        n == [node EXCEPT !.value = v.node]
    IN  IF v.st.exc # "none" THEN Returns(n, v.st)
        ELSE IF node.target.kind = "IdentifierNode"
        THEN IF IsLiteral(v.node)
             THEN Returns(n, [v.st EXCEPT !.known = Bind(v.st.known, node.target.name, v.node)])
             ELSE Returns(n, [v.st EXCEPT !.known = Pop(v.st.known, node.target.name)])
        ELSE Returns(n, v.st)

visit_UnaryOpNode(node, st) ==
    LET o == visit(node.operand, st)
        n == [node EXCEPT !.operand = o.node]
    IN  IF o.st.exc # "none" THEN Returns(n, o.st)
        ELSE IF o.node.kind = "IntLiteralNode"
        THEN LET e == _eval_unary(node.op, o.node.value)
             IN  IF e.exc # "none" THEN Raising(n, o.st, e.exc)
                 ELSE NewIntLiteral(o.st, e.val)
        ELSE Returns(n, o.st)

\* a binary fold that tests the operands it had before folding them
visit_BinaryOpNode_early(node, st) ==
    LET l == visit(node.left, st)
        r == IF l.st.exc # "none" THEN Returns(node.right, l.st)
             ELSE visit(node.right, l.st)
        n == [node EXCEPT !.left = l.node, !.right = r.node]
    IN  IF r.st.exc # "none" THEN Returns(n, r.st)
        ELSE IF l.node.kind = "IntLiteralNode" /\ r.node.kind = "IntLiteralNode"
                /\ node.left.kind = "IntLiteralNode" /\ node.right.kind = "IntLiteralNode"
        THEN LET e == _eval_binary(node.op, l.node.value, r.node.value)
             IN  IF e.exc # "none" THEN Raising(n, r.st, e.exc)
                 ELSE NewIntLiteral(r.st, e.val)
        ELSE Returns(n, r.st)

\* a binary fold that leaves the node in place when the evaluator raises
visit_BinaryOpNode_lenient(node, st) ==
    LET l == visit(node.left, st)
        r == IF l.st.exc # "none" THEN Returns(node.right, l.st)
             ELSE visit(node.right, l.st)
        n == [node EXCEPT !.left = l.node, !.right = r.node]
    IN  IF r.st.exc # "none" THEN Returns(n, r.st)
        ELSE IF l.node.kind = "IntLiteralNode" /\ r.node.kind = "IntLiteralNode"
        THEN LET e == _eval_binary(node.op, l.node.value, r.node.value)
             IN  IF e.exc # "none" THEN Returns(n, r.st)
                 ELSE NewIntLiteral(r.st, e.val)
        ELSE Returns(n, r.st)

visit_BinaryOpNode(node, st) ==
    LET l == visit(node.left, st)
        r == IF l.st.exc # "none" THEN Returns(node.right, l.st)
             ELSE visit(node.right, l.st)
        n == [node EXCEPT !.left = l.node, !.right = r.node]
    IN  IF r.st.exc # "none" THEN Returns(n, r.st)
        ELSE IF l.node.kind = "IntLiteralNode" /\ r.node.kind = "IntLiteralNode"
        THEN LET e == _eval_binary(node.op, l.node.value, r.node.value)
             IN  IF e.exc # "none" THEN Raising(n, r.st, e.exc)
                 ELSE NewIntLiteral(r.st, e.val)
        ELSE Returns(n, r.st)

\* an operand node that gives way to its operand once that is a literal
visit_OperandNode_collapsing(node, st) ==
    LET o == visit(node.operand, st)
    IN  IF IsLiteral(o.node) THEN o
        ELSE Returns([node EXCEPT !.operand = o.node], o.st)

\* visit_DereferenceNode, visit_AddressOfNode, visit_CastNode
visit_OperandNode(node, st) ==
    LET o == visit(node.operand, st)
    IN  Returns([node EXCEPT !.operand = o.node], o.st)

\* visit_IncrementNode, visit_DecrementNode
visit_IncrementNode(node, st) ==
    LET o == visit(node.operand, st)
        n == [node EXCEPT !.operand = o.node]
    IN  IF o.st.exc # "none" THEN Returns(n, o.st)
        ELSE IF o.node.kind = "IdentifierNode"
        THEN Returns(n, [o.st EXCEPT !.known = Pop(o.st.known, o.node.name)])
        ELSE Returns(n, o.st)

\* [self.visit(stmt) for stmt in node.statements], from statement i on
RECURSIVE VisitStatements(_, _, _)
VisitStatements(stmts, i, st) ==
    IF i > Len(stmts) \/ st.exc # "none" THEN Returns(stmts, st)
    ELSE LET s == visit(stmts[i], st)
         IN  VisitStatements([stmts EXCEPT ![i] = s.node], i + 1, s.st)

visit_MainFunctionNode(node, st) ==
    LET r == VisitStatements(node.statements, 1, st)
    IN  Returns([node EXCEPT !.statements = r.node], r.st)

visit_ProgramNode(node, st) ==
    LET m == visit(node.main_function, st)
    IN  Returns([node EXCEPT !.main_function = m.node], m.st)

Dispatch(node, st) ==
    CASE node.kind = "ProgramNode"      -> visit_ProgramNode(node, st)
      [] node.kind = "MainFunctionNode" -> visit_MainFunctionNode(node, st)
      [] node.kind = "VarDeclNode"      -> visit_VarDeclNode(node, st)
      [] node.kind = "AssignNode"       -> visit_AssignNode(node, st)
      [] node.kind = "IdentifierNode"   -> visit_IdentifierNode(node, st)
      [] node.kind = "UnaryOpNode"      -> visit_UnaryOpNode(node, st)
      [] node.kind = "BinaryOpNode"     -> visit_BinaryOpNode(node, st)
      [] node.kind \in {"DereferenceNode", "AddressOfNode", "CastNode"}
                                        -> visit_OperandNode(node, st)
      [] node.kind \in {"IncrementNode", "DecrementNode"}
                                        -> visit_IncrementNode(node, st)
      [] OTHER                          -> generic_visit(node, st)

\* a visit that does not look at the enabled flag
visit_always(node, st) == Dispatch(node, st)

visit(node, st) ==
    IF ~enabled THEN Returns(node, st) ELSE Dispatch(node, st)

----------------------------------------------------------------------------
(* dot_visitor.py.  A piece of text is a sequence of tokens; a double      *)
(* quote and a backslash are always tokens of their own, so that           *)
(* str.replace acts on tokens.  The visitor's state is threaded as         *)
(* st = [lines, counter]; a _visit returns [id, st].                       *)

Digit(d) ==
    CASE d = 0 -> "0" [] d = 1 -> "1" [] d = 2 -> "2" [] d = 3 -> "3" [] d = 4 -> "4"
      [] d = 5 -> "5" [] d = 6 -> "6" [] d = 7 -> "7" [] d = 8 -> "8" [] d = 9 -> "9"

RECURSIVE StrNat(_)
StrNat(n) == IF n < 10 THEN <<Digit(n)>> ELSE StrNat(n \div 10) \o <<Digit(n % 10)>>

\* str(value) of an int
Str(n) == IF n < 0 THEN <<"-">> \o StrNat(-n) ELSE StrNat(n)

\* text.replace(old, new) for a one-character old
RECURSIVE Replace(_, _, _)
Replace(text, old, new) ==
    IF text = <<>> THEN <<>>
    ELSE (IF Head(text) = old THEN new ELSE <<Head(text)>>) \o Replace(Tail(text), old, new)

RECURSIVE Stars(_)
Stars(n) == IF n = 0 THEN <<>> ELSE <<"*">> \o Stars(n - 1)

DotState(l, c) == [lines |-> l, counter |-> c]

DotReturns(id, st) == [id |-> id, st |-> st]

_new_id(st) ==
    DotReturns(<<"node">> \o Str(st.counter + 1), [st EXCEPT !.counter = st.counter + 1])

_add_node(st, node_id, label, shape) ==
    LET escaped == Replace(Replace(label, "\"", <<"\\", "\"">>), "\\", <<"\\", "\\">>)
    IN  [st EXCEPT !.lines = Append(st.lines,
            <<"    ">> \o node_id \o <<" [label=", "\"">> \o escaped
                \o <<"\"", ", shape=", shape, "];">>)]

_add_edge(st, parent_id, child_id) ==
    [st EXCEPT !.lines = Append(st.lines,
        <<"    ">> \o parent_id \o <<" -> ">> \o child_id \o <<";">>)]

\* the label and shape each _visit_<Class> method gives its node
Label(node) ==
    CASE node.kind = "ProgramNode"      -> <<"Program">>
      [] node.kind = "MainFunctionNode" -> <<"main()">>
      [] node.kind = "VarDeclNode"      ->
            <<"VarDecl", "\\", "n">> \o (IF node.is_const THEN <<"const ">> ELSE <<>>)
                \o <<node.type_name>> \o Stars(node.pointer_depth) \o <<" ", node.name>>
      [] node.kind = "AssignNode"       -> <<"=">>
      [] node.kind = "IntLiteralNode"   -> Str(node.value)
      [] node.kind = "FloatLiteralNode" -> <<node.value>>
      [] node.kind = "CharLiteralNode"  -> <<"'", node.value, "'">>
      [] node.kind = "IdentifierNode"   -> <<node.name>>
      [] node.kind = "UnaryOpNode"      -> <<node.op>>
      [] node.kind = "BinaryOpNode"     -> <<node.op>>
      [] node.kind = "DereferenceNode"  -> <<"deref (*)">>
      [] node.kind = "AddressOfNode"    -> <<"addr (&)">>
      [] node.kind = "IncrementNode"    ->
            IF node.prefix THEN <<"++ (prefix)">> ELSE <<"++ (postfix)">>
      [] node.kind = "DecrementNode"    ->
            IF node.prefix THEN <<"-- (prefix)">> ELSE <<"-- (postfix)">>
      [] node.kind = "CastNode"         ->
            <<"cast (", node.type_name>> \o Stars(node.pointer_depth) \o <<")">>

Shape(node) ==
    IF node.kind \in {"ProgramNode", "MainFunctionNode", "VarDeclNode"} \cup LiteralKinds
    THEN "rectangle" ELSE "ellipse"

\* the children a _visit_<Class> method visits, in its order
Children(node) ==
    CASE node.kind = "ProgramNode"      -> <<node.main_function>>
      [] node.kind = "MainFunctionNode" -> node.statements
      [] node.kind = "VarDeclNode"      ->
            IF node.value # NoneNode THEN <<node.value>> ELSE <<>>
      [] node.kind = "AssignNode"       -> <<node.target, node.value>>
      [] node.kind = "BinaryOpNode"     -> <<node.left, node.right>>
      [] node.kind \in OperandKinds     -> <<node.operand>>
      [] OTHER                          -> <<>>

RECURSIVE _visit(_, _)

\* the children are visited first, each in turn; then the edges are added
RECURSIVE VisitChildren(_, _, _, _)
VisitChildren(children, i, ids, st) ==
    IF i > Len(children) THEN DotReturns(ids, st)
    ELSE LET c == _visit(children[i], st)
         IN  VisitChildren(children, i + 1, Append(ids, c.id), c.st)

RECURSIVE AddEdges(_, _, _, _)
AddEdges(st, parent_id, ids, i) ==
    IF i > Len(ids) THEN st
    ELSE AddEdges(_add_edge(st, parent_id, ids[i]), parent_id, ids, i + 1)

\* MainFunctionNode (and every one-child node) adds each edge right after the child
RECURSIVE VisitEach(_, _, _, _)
VisitEach(children, i, parent_id, st) ==
    IF i > Len(children) THEN st
    ELSE LET c == _visit(children[i], st)
         IN  VisitEach(children, i + 1, parent_id, _add_edge(c.st, parent_id, c.id))

_visit(node, st) ==
    LET n == _new_id(st)
        a == _add_node(n.st, n.id, Label(node), Shape(node))
    IN  IF node.kind \in {"AssignNode", "BinaryOpNode"}
        THEN LET c == VisitChildren(Children(node), 1, <<>>, a)
             IN  DotReturns(n.id, AddEdges(c.st, n.id, c.id, 1))
        ELSE DotReturns(n.id, VisitEach(Children(node), 1, n.id, a))

\* a visit that does not reset the counter of the instance
DotDocument_keeps_counter(node, st) ==
    LET kept == DotState(<<<<"digraph AST {">>, <<"    node [fontname=", "\"", "Helvetica", "\"", "];">>>>, st.counter)
        v == _visit(node, kept)
    IN  [v.st EXCEPT !.lines = Append(v.st.lines, <<"}">>)]

\* DotVisitor.visit: the lines of the returned document ('\n'.join(self._lines))
DotDocument(node, st) ==
    LET fresh == DotState(<<<<"digraph AST {">>, <<"    node [fontname=", "\"", "Helvetica", "\"", "];">>>>, 0)
        v == _visit(node, fresh)
    IN  [v.st EXCEPT !.lines = Append(v.st.lines, <<"}">>)]

\* '\n'.join(lines)
RECURSIVE Join(_)
Join(ls) ==
    IF ls = <<>> THEN <<>>
    ELSE IF Len(ls) = 1 THEN ls[1]
    ELSE ls[1] \o <<"\n">> \o Join(Tail(ls))

----------------------------------------------------------------------------
(* ast_builder.py: every visit method constructs a new node object.  A     *)
(* shape is a node whose ids are not yet given; WithId gives the node at   *)
(* statement i, slot path p the identity <<i>> \o p.  The objects the      *)
(* folder constructs are <<0, 1>>, <<0, 2>>, ...                            *)

RECURSIVE WithId(_, _)
WithId(shape, id) ==
    CASE shape.kind = "VarDeclNode" ->
            [shape EXCEPT !.id = id,
                          !.value = IF shape.value = NoneNode THEN NoneNode
                                    ELSE WithId(shape.value, id \o <<1>>)]
      [] shape.kind = "AssignNode" ->
            [shape EXCEPT !.id = id, !.target = WithId(shape.target, id \o <<0>>),
                          !.value = WithId(shape.value, id \o <<1>>)]
      [] shape.kind = "BinaryOpNode" ->
            [shape EXCEPT !.id = id, !.left = WithId(shape.left, id \o <<1>>),
                          !.right = WithId(shape.right, id \o <<2>>)]
      [] shape.kind \in OperandKinds ->
            [shape EXCEPT !.id = id, !.operand = WithId(shape.operand, id \o <<1>>)]
      [] OTHER -> [shape EXCEPT !.id = id]

Names == {"x", "y"}

Lit(v) == IntLiteralNode(<<>>, v)

Id(n) == IdentifierNode(<<>>, n)

Bin(op, l, r) == BinaryOpNode(<<>>, op, l, r)

Un(op, o) == UnaryOpNode(<<>>, op, o)

Inc(o, prefix) == IncrementNode(<<>>, o, prefix)

Dec(o, prefix) == DecrementNode(<<>>, o, prefix)

Decl(name, value) == VarDeclNode(<<>>, FALSE, "int", 0, name, value)

Cast(type_name, pointer_depth, o) == CastNode(<<>>, type_name, pointer_depth, o)

Assign(target, value) == AssignNode(<<>>, target, value)

\* the statement-level programs: x is declared, assigned, incremented and read
FlowStmts ==
    {Decl("x", v) : v \in {NoneNode, Lit(5), Lit(0), Id("y")}}
    \cup {Decl("y", v) : v \in {NoneNode, Lit(5), Id("x"), Bin("+", Id("x"), Lit(2)),
                                 Bin("/", Lit(5), Id("x")), Inc(Id("x"), FALSE)}}
    \cup {VarDeclNode(<<>>, TRUE, "int", 0, "x", Lit(5)),
          VarDeclNode(<<>>, FALSE, "int", 1, "y", AddressOfNode(<<>>, Id("x")))}
    \cup {Assign(Id("x"), v) : v \in {Lit(10), Id("y"), Bin("+", Id("x"), Lit(2))}}
    \cup {Assign(Id("y"), Id("x")), Assign(DereferenceNode(<<>>, Id("y")), Lit(5))}
    \cup {Inc(Id("x"), p) : p \in BOOLEAN} \cup {Dec(Id("x"), p) : p \in BOOLEAN}
    \cup {Inc(Id("y"), FALSE)}

Interval(n) == (-n) .. n

LiteralShapes == {Lit(2), FloatLiteralNode(<<>>, "1.5"), CharLiteralNode(<<>>, "a")}

\* the operator expressions: every operator of the table on every pair of
\* integers of the interval, on every pair of literal kinds, and nested
ExprShapes ==
    {Bin(op, Lit(a), Lit(b)) : op \in BinaryOps, a \in Interval(MaxAbs), b \in Interval(MaxAbs)}
    \cup {Un(op, Lit(a)) : op \in UnaryOps, a \in Interval(MaxAbs)}
    \cup {Bin(op, l, r) : op \in BinaryOps, l \in LiteralShapes, r \in LiteralShapes}
    \cup {Un(op, l) : op \in UnaryOps, l \in LiteralShapes}
    \cup {Un(op1, Un(op2, Lit(a))) : op1 \in UnaryOps, op2 \in UnaryOps, a \in 0 .. 2}
    \cup {Bin(op, Un("-", Lit(a)), Lit(b)) : op \in {"/", "%", "<<", ">>"}, a \in 0 .. 3, b \in 0 .. 3}
    \cup {Bin(op, Lit(a), Un("-", Lit(b))) : op \in {"/", "%", "<<", ">>"}, a \in 0 .. 3, b \in 0 .. 3}
    \cup {Bin(op, Lit(5), Bin("-", Lit(1), Lit(1))) : op \in {"/", "%", "+"}}
    \cup {Bin("*", Bin("+", Lit(1), Lit(2)), o) : o \in {Lit(3), Id("x"), Cast("int", 0, Lit(3))}}
    \cup {Cast("float", 0, Bin("+", Lit(1), Lit(2))), Un("-", Cast("int", 0, Lit(5))),
          DereferenceNode(<<>>, Un("-", Lit(1))), Un("!", Id("x"))}

ExprStmts == {Decl("y", e) : e \in ExprShapes}

\* the exported programs: every node class, every label form
DotStmts ==
    {Decl("x", NoneNode), Decl("x", Lit(5)), Decl("y", Id("x")),
     VarDeclNode(<<>>, TRUE, "char", 2, "y", CharLiteralNode(<<>>, "\"")),
     Decl("y", Bin("+", Id("x"), FloatLiteralNode(<<>>, "1.5"))),
     Decl("y", Bin("-", Lit(1), Lit(3))),
     Assign(Id("x"), Un("-", Id("y"))),
     Assign(DereferenceNode(<<>>, Id("y")), CharLiteralNode(<<>>, "a")),
     Assign(Id("y"), Cast("int", 1, AddressOfNode(<<>>, Id("x")))),
     Decl("y", DereferenceNode(<<>>, Id("x"))), Decl("x", Cast("float", 0, Lit(5))),
     Assign(DereferenceNode(<<>>, Id("x")), Bin("+", Id("x"), Lit(1))),
     Inc(Id("x"), TRUE), Inc(Id("x"), FALSE), Dec(Id("y"), TRUE), Dec(Id("y"), FALSE)}

\* BinaryOpNode.op and UnaryOpNode.op are plain strings: operator symbols
\* the evaluation tables of the folder do not list
UnknownOps == {"**", "?"}

\* the programs of operators the evaluator cannot evaluate: a symbol outside
\* the tables, a negative shift count (written as unary minus on a literal),
\* next to statements that bind x and statements that fold
AbortStmts ==
    {Decl("x", Lit(2)), Decl("x", NoneNode), Decl("y", Bin("+", Lit(1), Lit(2))),
     Decl("y", Bin("+", Id("x"), Lit(1)))}
    \cup {Decl("y", Bin(op, l, Lit(3))) :
              op \in UnknownOps, l \in {Lit(2), Un("-", Lit(2)), Id("x"), FloatLiteralNode(<<>>, "1.5")}}
    \cup {Decl("y", Un(op, o)) : op \in UnknownOps, o \in {Lit(2), Id("x")}}
    \cup {Assign(Id("x"), Bin("+", Lit(1), Bin("**", Lit(2), Lit(3))))}
    \cup {Decl("y", Bin(op, l, r)) :
              op \in {"<<", ">>"}, l \in {Lit(1), Id("x")}, r \in {Un("-", Lit(1)), Lit(1)}}
    \cup {Decl("y", Bin("<<", Cast("int", 0, Lit(1)), Un("-", Lit(1))))}

----------------------------------------------------------------------------
(* main/__main__.py: build the AST, fold it, export it *)

EmptyProgram == ProgramNode(<<0>>, MainFunctionNode(<<0, 0>>, <<>>))

Init ==
    /\ tree = EmptyProgram
    /\ ast = EmptyProgram
    /\ pc = "lower"
    /\ enabled = TRUE
    /\ known = <<>>
    /\ nalloc = 0
    /\ raised = "none"
    /\ lines = <<>>
    /\ counter = 0
    /\ docs = <<>>
    /\ visits = 0

\* ASTBuilder.visitMain_function: the next statement of main is lowered
Lower(shapes, max) ==
    /\ pc = "lower"
    /\ Len(Statements(ast)) < max
    /\ \E shape \in shapes :
          LET i == Len(Statements(ast)) + 1
          IN  ast' = [ast EXCEPT !.main_function.statements = Append(@, WithId(shape, <<i>>))]
    /\ tree' = ast'
    /\ UNCHANGED <<pc, enabled, known, nalloc, raised, lines, counter, docs, visits>>

\* ConstantFolder(enabled=not args.no_fold)
Construct ==
    /\ pc = "lower"
    /\ \E e \in BOOLEAN : enabled' = e
    /\ known' = <<>>
    /\ pc' = "constructed"
    /\ UNCHANGED <<tree, ast, nalloc, raised, lines, counter, docs, visits>>

\* ast = folder.visit(ast)
Fold ==
    /\ pc = "constructed"
    /\ LET r == visit(ast, FolderState(known, nalloc, "none"))
       IN  /\ ast' = r.node
           /\ known' = r.st.known
           /\ nalloc' = r.st.nalloc
           /\ raised' = r.st.exc
           /\ pc' = IF r.st.exc = "none" THEN "folded" ELSE "raised"
    /\ UNCHANGED <<tree, enabled, lines, counter, docs, visits>>

\* DotVisitor()
NewDotVisitor ==
    /\ pc = "folded"
    /\ lines' = <<>>
    /\ counter' = 0
    /\ visits' = 0
    /\ UNCHANGED <<tree, ast, pc, enabled, known, nalloc, raised, docs>>

\* dot_string = visitor.visit(ast)
DotVisit ==
    /\ pc = "folded"
    /\ Len(docs) < MaxDocs
    /\ LET d == DotDocument(ast, DotState(lines, counter))
       IN  /\ lines' = d.lines
           /\ counter' = d.counter
           /\ docs' = Append(docs, Join(d.lines))
    /\ visits' = visits + 1
    /\ UNCHANGED <<tree, ast, pc, enabled, known, nalloc, raised>>

\* statement-level programs, folded
LowerFlow == Lower(FlowStmts, MaxStmts)

Next == LowerFlow \/ Construct \/ Fold

Spec == Init /\ [][Next]_vars

\* one declaration whose initializer is an operator expression, folded
LowerExpr == Lower(ExprStmts, 1)

NextExpr == LowerExpr \/ Construct \/ Fold

SpecExpr == Init /\ [][NextExpr]_vars

\* programs of every node class, folded and exported
LowerDot == Lower(DotStmts, MaxDotStmts)

NextDot == LowerDot \/ Construct \/ Fold \/ NewDotVisitor \/ DotVisit

SpecDot == Init /\ [][NextDot]_vars

\* programs of operators the evaluator cannot evaluate, folded
LowerAbort == Lower(AbortStmts, MaxAbortStmts)

NextAbort == LowerAbort \/ Construct \/ Fold

SpecAbort == Init /\ [][NextAbort]_vars

----------------------------------------------------------------------------
(* Reading trees *)

\* every node of a tree, parents before children, an object once per slot that holds it
RECURSIVE Preorder(_)
RECURSIVE PreorderAll(_, _)
PreorderAll(children, i) ==
    IF i > Len(children) THEN <<>>
    ELSE Preorder(children[i]) \o PreorderAll(children, i + 1)

Preorder(node) == <<node>> \o PreorderAll(Children(node), 1)

NodesOf(node) == {Preorder(node)[i] : i \in 1 .. Len(Preorder(node))}

\* the tree without the identities of its objects: its structure and attributes
RECURSIVE Strip(_)
Strip(node) ==
    CASE node.kind = "None"             -> node
      [] node.kind = "ProgramNode"      ->
            [node EXCEPT !.id = <<>>, !.main_function = Strip(node.main_function)]
      [] node.kind = "MainFunctionNode" ->
            [node EXCEPT !.id = <<>>,
                         !.statements = [i \in 1 .. Len(node.statements) |-> Strip(node.statements[i])]]
      [] node.kind = "VarDeclNode"      -> [node EXCEPT !.id = <<>>, !.value = Strip(node.value)]
      [] node.kind = "AssignNode"       ->
            [node EXCEPT !.id = <<>>, !.target = Strip(node.target), !.value = Strip(node.value)]
      [] node.kind = "BinaryOpNode"     ->
            [node EXCEPT !.id = <<>>, !.left = Strip(node.left), !.right = Strip(node.right)]
      [] node.kind \in OperandKinds     -> [node EXCEPT !.id = <<>>, !.operand = Strip(node.operand)]
      [] OTHER                          -> [node EXCEPT !.id = <<>>]

Before == Statements(tree)

After == Statements(ast)

Passed == pc = "folded" /\ enabled

\* statement s declares name or assigns to the identifier name
Rebinds(s, name) ==
    \/ s.kind = "VarDeclNode" /\ s.name = name
    \/ s.kind = "AssignNode" /\ s.target.kind = "IdentifierNode" /\ s.target.name = name

\* statement s binds name to a literal value
BindsLiteral(s, name) == Rebinds(s, name) /\ IsLiteral(s.value)

\* statement s holds an Increment or Decrement whose operand is the identifier name
Mutates(s, name) ==
    \E n \in NodesOf(s) :
        /\ n.kind \in {"IncrementNode", "DecrementNode"}
        /\ n.operand.kind = "IdentifierNode"
        /\ n.operand.name = name

\* the number of slots of s that hold an identifier name
Reads(s, name) ==
    Cardinality({i \in 1 .. Len(Preorder(s)) :
        Preorder(s)[i].kind = "IdentifierNode" /\ Preorder(s)[i].name = name})

NoRebindBetween(j, k, name) == \A m \in (j + 1) .. (k - 1) : ~Rebinds(Before[m], name)

----------------------------------------------------------------------------
(* C1: invalidation on mutation.  Once x was bound to a literal and is     *)
(* then the identifier operand of an Increment or Decrement, x has no      *)
(* binding after that statement, and a later statement with no VarDecl or  *)
(* Assign of x in between keeps every read of x as an Identifier.          *)
(* The code replaces the operand by the literal first and then finds no    *)
(* identifier to invalidate.                                               *)

C1_InvalidationOnMutation ==
    Passed =>
        \A name \in Names : \A j \in 1 .. Len(Before) :
            ( /\ Mutates(Before[j], name)
              /\ ~Rebinds(Before[j], name)
              /\ \E i \in 1 .. (j - 1) : BindsLiteral(Before[i], name) )
            => /\ NoRebindBetween(j, Len(Before) + 1, name) => name \notin DOMAIN known
               /\ \A k \in (j + 1) .. Len(Before) :
                     NoRebindBetween(j, k, name) => Reads(After[k], name) = Reads(Before[k], name)

----------------------------------------------------------------------------
(* C2: zero-divisor safety.  Folding a / or % whose folded operands are    *)
(* integer literals, the right one 0, does not raise.  The code evaluates  *)
(* int(left / right) and left % right and Python raises ZeroDivisionError. *)

C2_ZeroDivisorSafety == raised # "ZeroDivisionError"

----------------------------------------------------------------------------
(* The reference semantics of the source language on the pointer-free      *)
(* integer fragment.  A store maps the initialised variables to their      *)
(* values; a result is [ok, val, store], ok false when the program leaves  *)
(* the fragment or its behaviour is undefined (an uninitialised read, a    *)
(* zero divisor, a negative shift count).                                  *)

CDiv(a, b) == IF (a < 0) = (b < 0) THEN Abs(a) \div Abs(b) ELSE -(Abs(a) \div Abs(b))

RefReturns(v, store) == [ok |-> TRUE, val |-> v, store |-> store]

RefUndefined(store) == [ok |-> FALSE, val |-> 0, store |-> store]

RefUnary(op, v) ==
    CASE op = "+" -> v
      [] op = "-" -> -v
      [] op = "!" -> BoolInt(v = 0)
      [] op = "~" -> -v - 1

RefBinaryDefined(op, a, b) ==
    /\ op \in {"/", "%"} => b # 0
    /\ op \in {"<<", ">>"} => b >= 0 /\ a >= 0

RefBinary(op, a, b) ==
    CASE op = "+"  -> a + b
      [] op = "-"  -> a - b
      [] op = "*"  -> a * b
      [] op = "/"  -> CDiv(a, b)
      [] op = "%"  -> a - b * CDiv(a, b)
      [] op = "==" -> BoolInt(a = b)
      [] op = "!=" -> BoolInt(a # b)
      [] op = "<"  -> BoolInt(a < b)
      [] op = ">"  -> BoolInt(a > b)
      [] op = "<=" -> BoolInt(a <= b)
      [] op = ">=" -> BoolInt(a >= b)
      [] op = "&&" -> BoolInt(a # 0 /\ b # 0)
      [] op = "||" -> BoolInt(a # 0 \/ b # 0)
      [] op = "&"  -> BitAnd(a, b)
      [] op = "|"  -> BitOr(a, b)
      [] op = "^"  -> BitXor(a, b)
      [] op = "<<" -> a * Pow2(b)
      [] op = ">>" -> a \div Pow2(b)

RECURSIVE RefEval(_, _)
RefEval(e, store) ==
    CASE e.kind = "IntLiteralNode" -> RefReturns(e.value, store)
      [] e.kind = "IdentifierNode" ->
            IF e.name \in DOMAIN store THEN RefReturns(store[e.name], store)
            ELSE RefUndefined(store)
      [] e.kind = "UnaryOpNode" ->
            LET o == RefEval(e.operand, store)
            IN  IF o.ok /\ e.op \in UnaryOps THEN RefReturns(RefUnary(e.op, o.val), o.store)
                ELSE RefUndefined(store)
      [] e.kind = "BinaryOpNode" ->
            LET l == RefEval(e.left, store)
                r == IF l.ok THEN RefEval(e.right, l.store) ELSE l
            IN  IF r.ok /\ e.op \in BinaryOps /\ RefBinaryDefined(e.op, l.val, r.val)
                THEN RefReturns(RefBinary(e.op, l.val, r.val), r.store)
                ELSE RefUndefined(store)
      [] e.kind \in {"IncrementNode", "DecrementNode"} ->
            LET o == RefEval(e.operand, store)
                d == IF e.kind = "IncrementNode" THEN 1 ELSE -1
            IN  IF ~o.ok THEN RefUndefined(store)
                ELSE IF e.operand.kind = "IdentifierNode"
                THEN RefReturns(IF e.prefix THEN o.val + d ELSE o.val,
                                Bind(o.store, e.operand.name, o.val + d))
                \* an operand that is no variable has nothing to store into
                ELSE RefReturns(IF e.prefix THEN o.val + d ELSE o.val, o.store)
      [] OTHER -> RefUndefined(store)

RefExec(s, store) ==
    CASE s.kind = "VarDeclNode" ->
            IF s.type_name # "int" \/ s.pointer_depth # 0 THEN RefUndefined(store)
            ELSE IF s.value = NoneNode THEN RefReturns(0, Pop(store, s.name))
            ELSE LET v == RefEval(s.value, store)
                 IN  IF v.ok THEN RefReturns(v.val, Bind(v.store, s.name, v.val)) ELSE v
      [] s.kind = "AssignNode" ->
            IF s.target.kind # "IdentifierNode" THEN RefUndefined(store)
            ELSE LET v == RefEval(s.value, store)
                 IN  IF v.ok THEN RefReturns(v.val, Bind(v.store, s.target.name, v.val)) ELSE v
      [] OTHER -> RefEval(s, store)

RECURSIVE RefRun(_, _, _)
RefRun(stmts, i, store) ==
    IF i > Len(stmts) THEN RefReturns(0, store)
    ELSE LET r == RefExec(stmts[i], store)
         IN  IF r.ok THEN RefRun(stmts, i + 1, r.store) ELSE r

----------------------------------------------------------------------------
(* C3: folding preserves meaning.  For a program of the pointer-free       *)
(* integer fragment whose run is defined, the folded program's run is      *)
(* defined and ends with the same value for every variable.  It fails      *)
(* with C1: after x++ of a known x the folder still propagates the old     *)
(* value of x.                                                             *)

\* every variable a statement names was declared by an earlier statement
Declared(stmts) ==
    \A k \in 1 .. Len(stmts) : \A name \in Names :
        Reads(stmts[k], name) > 0
            => \E i \in 1 .. (k - 1) : stmts[i].kind = "VarDeclNode" /\ stmts[i].name = name

C3_FoldingPreservesMeaning ==
    (Passed /\ Declared(Before) /\ RefRun(Before, 1, <<>>).ok)
        => /\ RefRun(After, 1, <<>>).ok
           /\ RefRun(After, 1, <<>>).store = RefRun(Before, 1, <<>>).store

----------------------------------------------------------------------------
(* C4: disabled-mode identity.  With enabled = false the visit returns the *)
(* AST with every node, slot and attribute as it was, constructs no node,  *)
(* raises nothing and leaves the known-value environment empty.            *)

C4_DisabledIdentity ==
    ~enabled =>
        /\ pc # "raised"
        /\ pc = "folded" => ast = tree /\ known = <<>> /\ nalloc = 0

\* a disabled pass has run over a program an enabled pass would rewrite
C4_Witness ==
    /\ pc = "folded" /\ ~enabled
    /\ \E i, j \in 1 .. Len(Before) :
          /\ i < j
          /\ BindsLiteral(Before[i], "x")
          /\ Before[j].kind = "VarDeclNode"
          /\ Before[j].value = IdentifierNode(<<j, 1>>, "x")
          /\ After[j].value = IdentifierNode(<<j, 1>>, "x")

----------------------------------------------------------------------------
(* C5: idempotence.  When an enabled pass has completed, a second pass     *)
(* over its result by a fresh folder (empty environment) completes too and *)
(* leaves a tree of the same structure: the same node kinds, attributes    *)
(* and literal values in the same slots.                                   *)

Refolded == visit(ast, FolderState(<<>>, nalloc, "none"))

C5_Idempotence ==
    Passed => Refolded.st.exc = "none" /\ Strip(Refolded.node) = Strip(ast)

\* the first pass rewrote the program, and operator nodes are left in it
C5_Witness ==
    /\ Passed
    /\ Strip(ast) # Strip(tree)
    /\ nalloc > 0
    /\ \E n \in NodesOf(ast) : n.kind = "BinaryOpNode"

----------------------------------------------------------------------------
(* C6: division folding truncates toward zero.  A / of two integer         *)
(* literals a and b, b # 0, folds to the integer literal q of the largest  *)
(* magnitude with |q| * |b| <= |a|, negative exactly when a and b have     *)
(* opposite signs and q # 0.                                               *)

IsQuotientTowardZero(q, a, b) ==
    /\ Abs(q) * Abs(b) <= Abs(a)
    /\ Abs(a) < (Abs(q) + 1) * Abs(b)
    /\ q > 0 => (a < 0) = (b < 0)
    /\ q < 0 => (a < 0) # (b < 0)

IsIntDivision(e) ==
    /\ e.kind = "BinaryOpNode" /\ e.op = "/"
    /\ e.left.kind = "IntLiteralNode" /\ e.right.kind = "IntLiteralNode"
    /\ e.right.value # 0

C6_DivisionTruncatesTowardZero ==
    (enabled /\ pc \in {"folded", "raised"})
        => \A k \in 1 .. Len(Before) :
              (Before[k].kind = "VarDeclNode" /\ IsIntDivision(Before[k].value))
              => /\ pc = "folded"
                 /\ After[k].value.kind = "IntLiteralNode"
                 /\ IsQuotientTowardZero(After[k].value.value,
                                         Before[k].value.left.value, Before[k].value.right.value)

\* -7 / 2 has folded to -3 (the floor would be -4)
C6_Witness ==
    /\ Passed
    /\ Len(Before) = 1
    /\ Strip(Before[1].value) = Bin("/", Lit(-7), Lit(2))
    /\ Strip(After[1].value) = Lit(-3)

----------------------------------------------------------------------------
(* C7: flow-sensitive propagation, the later binding wins.  A read of x    *)
(* that is the whole value of a declaration or assignment, or the left     *)
(* operand of a + with a literal, is replaced by the literal that the most *)
(* recent earlier VarDecl or identifier-target Assign of x folded to; when *)
(* that statement has no initializer or did not fold to a literal, or      *)
(* there is none, the read stays Identifier(x).                            *)

\* the most recent statement before k that declares or assigns name, 0 when there is none
LastRebind(k, name) ==
    IF \E j \in 1 .. (k - 1) : Rebinds(Before[j], name)
    THEN CHOOSE j \in 1 .. (k - 1) :
            Rebinds(Before[j], name) /\ NoRebindBetween(j, k, name)
    ELSE 0

\* the literal that statement folded to, NoneNode when it folded to none
BoundLiteral(k, name) ==
    LET j == LastRebind(k, name)
    IN  IF j # 0 /\ IsLiteral(After[j].value) THEN Strip(After[j].value) ELSE NoneNode

HasValue(s) == s.kind \in {"VarDeclNode", "AssignNode"} /\ s.value # NoneNode

----------------------------------------------------------------------------
(* C8: export determinism.  Every document the exporter has returned for   *)
(* the AST is the same document, on a fresh DotVisitor or on one that has  *)
(* visited before; its node identifiers start again from node1 and count   *)
(* the slots of the AST.                                                   *)

C8_ExportDeterminism ==
    /\ \A i, j \in 1 .. Len(docs) : docs[i] = docs[j]
    /\ visits > 0 =>
          /\ SubSeq(lines[3], 1, 3) = <<"    ", "node", "1">>
          /\ counter = Len(Preorder(ast))
          /\ docs[Len(docs)] = Join(lines)

\* one DotVisitor instance has exported the same AST twice
C8_Witness ==
    /\ visits = 2
    /\ Len(docs) = 2
    /\ Len(Statements(ast)) = MaxDotStmts
    /\ counter > 4

----------------------------------------------------------------------------
(* C9: no sharing after folding.  After an enabled pass over a tree every  *)
(* node object is held by exactly one slot.  The code returns the bound    *)
(* literal object itself for a propagated read, so the initializer of the  *)
(* binding statement and every replaced read are one object.               *)

NoSharing(node) ==
    \A i, j \in 1 .. Len(Preorder(node)) :
        i # j => Preorder(node)[i].id # Preorder(node)[j].id

C9_NoSharingAfterFolding == (Passed /\ NoSharing(tree)) => NoSharing(ast)

----------------------------------------------------------------------------
(* C10: every all-literal operator node is folded.  After an enabled pass  *)
(* no arithmetic or comparison UnaryOp or BinaryOp is left whose operands  *)
(* are all literals of any kind, a / or % by a zero literal excepted.  The *)
(* code folds integer literals only.                                       *)

ArithmeticOps == {"+", "-", "*", "/", "%", "==", "!=", "<", ">", "<=", ">="}

IsZeroDivisor(n) ==
    n.op \in {"/", "%"} /\ n.right.kind = "IntLiteralNode" /\ n.right.value = 0

AllLiteralOperator(n) ==
    \/ n.kind = "UnaryOpNode" /\ n.op \in {"+", "-"} /\ IsLiteral(n.operand)
    \/ /\ n.kind = "BinaryOpNode" /\ n.op \in ArithmeticOps
       /\ IsLiteral(n.left) /\ IsLiteral(n.right)
       /\ ~IsZeroDivisor(n)

C10_AllLiteralOperatorsFolded ==
    Passed => \A n \in NodesOf(ast) : ~AllLiteralOperator(n)

----------------------------------------------------------------------------
(* C11: an unknown operator is fatal.  A UnaryOp or BinaryOp whose symbol  *)
(* is outside the evaluation tables and whose folded operands are integer  *)
(* literals aborts the pass with ValueError: the node is not replaced by a *)
(* literal, no folded pass leaves such a node in place, and the statements *)
(* after it are not folded.                                                *)

\* an expression that folds to an integer literal under every environment
RECURSIVE ClosedLiteral(_)
ClosedLiteral(node) ==
    \/ node.kind = "IntLiteralNode"
    \/ node.kind = "UnaryOpNode" /\ node.op \in UnaryOps /\ ClosedLiteral(node.operand)
    \/ /\ node.kind = "BinaryOpNode" /\ node.op \in {"+", "-", "*"}
       /\ ClosedLiteral(node.left) /\ ClosedLiteral(node.right)

\* name is bound to an integer literal when statement k is folded
KnownInt(k, name) ==
    LET j == LastRebind(k, name)
    IN  j # 0 /\ Before[j].value # NoneNode /\ ClosedLiteral(Before[j].value)

\* the operand folds to an integer literal when statement k is folded
FoldsToInt(k, node) ==
    \/ ClosedLiteral(node)
    \/ node.kind = "IdentifierNode" /\ KnownInt(k, node.name)

\* an operator node whose symbol its evaluation table does not list
OutsideTables(node) ==
    \/ node.kind = "UnaryOpNode" /\ node.op \notin UnaryOps
    \/ node.kind = "BinaryOpNode" /\ node.op \notin BinaryOps

\* such a node of statement k whose operands fold to integer literals
UnknownOperator(k, node) ==
    /\ OutsideTables(node)
    /\ \A c \in {Children(node)[i] : i \in 1 .. Len(Children(node))} : FoldsToInt(k, c)

\* such a node in the tree with integer literal operands
UnevaluatedOperator(node) ==
    /\ OutsideTables(node)
    /\ \A c \in {Children(node)[i] : i \in 1 .. Len(Children(node))} : c.kind = "IntLiteralNode"

C11_UnknownOperatorFatal ==
    /\ Passed => \A n \in NodesOf(ast) : ~UnevaluatedOperator(n)
    /\ (enabled /\ pc \in {"folded", "raised"}) =>
          \A k \in 1 .. Len(Before) :
              (\E n \in NodesOf(Before[k]) : UnknownOperator(k, n)) =>
                  /\ pc = "raised"
                  /\ raised = "ValueError"
                  /\ \E n \in NodesOf(After[k]) : OutsideTables(n)
                  /\ \A j \in (k + 1) .. Len(Before) : After[j] = Before[j]

\* int y = 2 ** 3; int y = 1 + 2; has raised ValueError with 1 + 2 not folded
C11_Witness ==
    /\ enabled /\ pc = "raised" /\ raised = "ValueError"
    /\ Len(Before) = 2
    /\ Strip(Before[1]) = Decl("y", Bin("**", Lit(2), Lit(3)))
    /\ Strip(Before[2]) = Decl("y", Bin("+", Lit(1), Lit(2)))
    /\ After = Before

----------------------------------------------------------------------------
(* C12: side-effecting and value-category nodes are never collapsed.  An   *)
(* Increment, Decrement, Dereference, AddressOf or Cast of the program is, *)
(* after the pass, a node of the same kind in the same slot with the same  *)
(* prefix flag, type_name and pointer_depth, also when its folded operand  *)
(* is a literal; no operator above it has folded it away.                  *)

KeptKinds == {"IncrementNode", "DecrementNode", "DereferenceNode", "AddressOfNode", "CastNode"}

\* the attributes of a kept node other than its operand
Attributes(node) ==
    CASE node.kind \in {"IncrementNode", "DecrementNode"} -> <<node.kind, node.prefix>>
      [] node.kind = "CastNode" -> <<node.kind, node.type_name, node.pointer_depth>>
      [] OTHER -> <<node.kind>>

\* every kept node under b is a kept node of the same attributes in the same slot under a
RECURSIVE Kept(_, _)
Kept(b, a) ==
    LET cb == Children(b)
        ca == Children(a)
    IN  IF b.kind \in KeptKinds
        THEN a.kind = b.kind /\ Attributes(a) = Attributes(b) /\ Kept(b.operand, a.operand)
        ELSE IF a.kind = b.kind /\ Len(ca) = Len(cb)
        THEN \A i \in 1 .. Len(cb) : Kept(cb[i], ca[i])
        ELSE \A n \in NodesOf(b) : n.kind \notin KeptKinds

C12_NeverCollapsed ==
    (enabled /\ pc \in {"folded", "raised"}) =>
        \A k \in 1 .. Len(Before) : Kept(Before[k], After[k])

\* int x = 5; y = (int*) &x; has folded to y = (int*) &5: the Cast and the AddressOf stand
C12_Witness ==
    /\ Passed
    /\ Len(Before) = 2
    /\ Strip(Before[1]) = Decl("x", Lit(5))
    /\ Strip(Before[2]) = Assign(Id("y"), Cast("int", 1, AddressOfNode(<<>>, Id("x"))))
    /\ Strip(After[2]) = Assign(Id("y"), Cast("int", 1, AddressOfNode(<<>>, Lit(5))))

----------------------------------------------------------------------------
(* C13: assignment through a non-identifier target.  Folding an Assign     *)
(* whose target is not a plain Identifier leaves the target subtree as it  *)
(* was, also where it names a bound variable, and adds, changes and        *)
(* removes no binding: a name no later statement declares or assigns is    *)
(* bound after the pass exactly as the last declaration or assignment      *)
(* before the Assign bound it.                                             *)

AssignsThrough(s) == s.kind = "AssignNode" /\ s.target.kind # "IdentifierNode"

\* no statement of the program increments or decrements name
NeverMutated(name) == \A m \in 1 .. Len(Before) : ~Mutates(Before[m], name)

C13_AssignThroughTarget ==
    Passed =>
        \A k \in 1 .. Len(Before) :
            AssignsThrough(Before[k]) =>
                /\ After[k].target = Before[k].target
                /\ \A name \in Names :
                      (NoRebindBetween(k, Len(Before) + 1, name) /\ NeverMutated(name)) =>
                          LET j == LastRebind(k, name)
                          IN  IF j # 0 /\ HasValue(After[j]) /\ IsLiteral(After[j].value)
                              THEN name \in DOMAIN known /\ known[name] = After[j].value
                              ELSE name \notin DOMAIN known

\* int x = 5; *x = x + 1; has folded to *x = 6 with x still bound to 5
C13_Witness ==
    /\ Passed
    /\ Len(Before) = 2
    /\ Strip(Before[1]) = Decl("x", Lit(5))
    /\ Strip(Before[2]) = Assign(DereferenceNode(<<>>, Id("x")), Bin("+", Id("x"), Lit(1)))
    /\ Strip(After[2]) = Assign(DereferenceNode(<<>>, Id("x")), Lit(6))
    /\ DOMAIN known = {"x"}
    /\ known["x"] = After[1].value

----------------------------------------------------------------------------
(* C14: label escaping.  In every node declaration the exporter has        *)
(* emitted, each double quote inside the quoted label is preceded by an    *)
(* odd number of consecutive backslashes, so the label ends at its closing *)
(* delimiter only.  The code escapes the quotes first and the backslashes  *)
(* second, which doubles the backslash it has just put before each quote:  *)
(* the quote follows two backslashes.                                      *)

IsNodeDeclaration(line) == \E i \in 1 .. Len(line) : line[i] = " [label="

\* the text between the opening and the closing delimiter of the label
LabelText(line) ==
    LET i == CHOOSE i \in 1 .. Len(line) : line[i] = " [label="
    IN  SubSeq(line, i + 2, Len(line) - 4)

\* the number of consecutive backslashes that end just before position i
RECURSIVE BackslashesBefore(_, _)
BackslashesBefore(text, i) ==
    IF i > 1 /\ text[i - 1] = "\\" THEN 1 + BackslashesBefore(text, i - 1) ELSE 0

C14_LabelEscaping ==
    \A n \in 1 .. Len(lines) :
        IsNodeDeclaration(lines[n]) =>
            \A i \in 1 .. Len(LabelText(lines[n])) :
                LabelText(lines[n])[i] = "\"" => BackslashesBefore(LabelText(lines[n]), i) % 2 = 1

----------------------------------------------------------------------------
(* C15: lvalue preservation.  Where the operand of an AddressOf, Increment *)
(* or Decrement of the program is a plain Identifier, the operand of that  *)
(* node is the same Identifier after an enabled pass, bound or not.  The   *)
(* code visits the operand like any read, and visit_IdentifierNode returns *)
(* the bound literal: &x and x++ after int x = 5 become &5 and 5++.        *)

LvalueKinds == {"AddressOfNode", "IncrementNode", "DecrementNode"}

TakesLvalue(node) == node.kind \in LvalueKinds /\ node.operand.kind = "IdentifierNode"

\* every identifier operand of an lvalue node under b is that operand in the same slot under a
RECURSIVE LvaluesKept(_, _)
LvaluesKept(b, a) ==
    LET cb == Children(b)
        ca == Children(a)
    IN  IF TakesLvalue(b)
        THEN a.kind = b.kind /\ a.operand = b.operand
        ELSE IF a.kind = b.kind /\ Len(ca) = Len(cb)
        THEN \A i \in 1 .. Len(cb) : LvaluesKept(cb[i], ca[i])
        ELSE \A n \in NodesOf(b) : ~TakesLvalue(n)

C15_LvaluePreservation ==
    Passed => \A k \in 1 .. Len(Before) : LvaluesKept(Before[k], After[k])

----------------------------------------------------------------------------
(* C16: folded modulo agrees with folded truncating division.  For a % b   *)
(* of integer literals (written directly or as unary minus on a literal),  *)
(* b # 0, the folded remainder r and the folded quotient q of a / b give   *)
(* q * b + r = a, and r is zero or has the sign of a.  The code folds %    *)
(* with Python's %, whose result has the sign of b: -7 % 2 folds to 1.     *)

\* an integer literal or the negation of one
IsIntOperand(e) ==
    \/ e.kind = "IntLiteralNode"
    \/ e.kind = "UnaryOpNode" /\ e.op = "-" /\ e.operand.kind = "IntLiteralNode"

IntOperand(e) == IF e.kind = "IntLiteralNode" THEN e.value ELSE -(e.operand.value)

IsIntModulo(e) ==
    /\ e.kind = "BinaryOpNode" /\ e.op = "%"
    /\ IsIntOperand(e.left) /\ IsIntOperand(e.right)
    /\ IntOperand(e.right) # 0

C16_ModuloAgreesWithDivision ==
    (enabled /\ pc \in {"folded", "raised"})
        => \A k \in 1 .. Len(Before) :
              (Before[k].kind = "VarDeclNode" /\ IsIntModulo(Before[k].value))
              => LET a == IntOperand(Before[k].value.left)
                     b == IntOperand(Before[k].value.right)
                     q == _eval_binary("/", a, b).val
                     r == After[k].value.value
                 IN  /\ pc = "folded"
                     /\ After[k].value.kind = "IntLiteralNode"
                     /\ q * b + r = a
                     /\ r = 0 \/ (r < 0) = (a < 0)

----------------------------------------------------------------------------
(* C17: a shift that cannot be evaluated stays local.  Where the right     *)
(* operand of << or >> folds to a negative integer literal and the left    *)
(* one to an integer literal, the pass completes, the BinaryOp stands with *)
(* its folded children, and the later statements are folded.  The code     *)
(* evaluates left << right and left >> right, Python raises ValueError for *)
(* a negative count, and nothing catches it: the pass aborts.              *)

IsNegativeShift(e) ==
    /\ e.kind = "BinaryOpNode" /\ e.op \in {"<<", ">>"}
    /\ IsIntOperand(e.left) /\ IsIntOperand(e.right)
    /\ IntOperand(e.right) < 0

C17_NegativeShiftStaysLocal ==
    ( /\ enabled /\ pc \in {"folded", "raised"}
      /\ \A n \in NodesOf(tree) : ~OutsideTables(n) )
        => \A k \in 1 .. Len(Before) :
              (Before[k].kind = "VarDeclNode" /\ IsNegativeShift(Before[k].value))
              => /\ pc = "folded"
                 /\ Strip(After[k].value) =
                        Bin(Before[k].value.op, Lit(IntOperand(Before[k].value.left)),
                            Lit(IntOperand(Before[k].value.right)))
                 /\ \A j \in (k + 1) .. Len(Before) :
                        (HasValue(Before[j]) /\ ClosedLiteral(Before[j].value))
                            => After[j].value.kind = "IntLiteralNode"

============================================================================
